---- MODULE Spec2Model ----
(***************************************************************************)
(* Interview simulator: the turn-sequenced interview session.              *)
(*                                                                         *)
(* Four parts of the repository keep interview progress, and they share   *)
(* no state with each other:                                               *)
(*   "dict"   app/agent.py: the tool functions over the process-wide       *)
(*            dictionary interview_sessions;                               *)
(*   "agent"  app/agents/interview/interview_agent.py: class InterviewAgent*)
(*            over an InterviewSession object;                             *)
(*   "legacy" app/agents/interview_agent.py: the older class InterviewAgent*)
(*            whose helper methods _get_session_summary and                *)
(*            _get_elapsed_time are not defined;                           *)
(*   "tools"  app/agents/interview/interview_agent.py: the module-level    *)
(*            tool functions, each of which builds its own InterviewAgent  *)
(*            from questions.json.                                         *)
(* A behaviour exercises one of them; `impl` says which.                   *)
(***************************************************************************)
EXTENDS Integers, Sequences, FiniteSets, TLC

VARIABLES
    impl,                \* which module the behaviour exercises
    questions_file,      \* "tools": the question records of questions.json, read
                         \* at every call (the other parts read the file once,
                         \* at construction, and carry no copy of it)
    threads,             \* the record_interview_answer calls that run concurrently:
                         \* thread -> its position and local variables
    interview_sessions,  \* app/agent.py: session_id -> session dict
    session,             \* InterviewAgent.session (InterviewSession)
    now,                 \* the wall clock, whole seconds (datetime.now())
    last,                \* the last call: its operation, arguments and result
                         \* (for next_question also `again`: the call before it
                         \* was next_question on the same session; for the job
                         \* analysis `replaced` and `adapters`; for provide_feedback
                         \* `adapter_called`)
    in_order             \* history: every record_answer so far carried the id of
                         \* the question at the pointer, and no question was
                         \* added after the first answer

vars == <<impl, questions_file, threads, interview_sessions, session, now, last, in_order>>

----------------------------------------------------------------------------
(* Bounds of the model *)

MaxQuestions == 2    \* longest question list an adapter / file / batch yields
MaxAnswers == 3      \* answers an InterviewAgent session may hold
MaxTime == 1         \* last clock reading
MaxElapsed == 7325   \* oldest session whose elapsed time is rendered, in seconds

----------------------------------------------------------------------------
(* Helpers for Python values *)

\* dict.get(key, default)
Get(d, k, default) == IF k \in DOMAIN d THEN d[k] ELSE default

\* all lists over S of length at most n
SeqsUpTo(S, n) == UNION {[1..k -> S] : k \in 0..n}

\* f"q{n}"
QId(n) == <<"q", n>>

\* datetime.isoformat()
IsoFormat(t) == <<"iso", t>>

\* d[k] = v on a dict, adding the key when absent
Put(d, k, v) == [x \in DOMAIN d \cup {k} |-> IF x = k THEN v ELSE d[x]]

EmptyDict == [x \in {} |-> {}]

None == [none |-> TRUE]

NoCall == [op |-> "none", sid |-> "none", result |-> [status |-> "none"]]

\* two callers at most run record_interview_answer at the same time
Threads == {1, 2}

\* a thread that has not entered the function
Idle == [pc |-> "idle"]

----------------------------------------------------------------------------
(* app/agent.py: the dict-based session *)

SessionIds == {"default", "other"}

HasDefault == impl = "dict" /\ "default" \in DOMAIN interview_sessions

\* the session analyze_job_and_generate_questions stores
Default == interview_sessions["default"]

\* vacancy_info as the analysis adapter returns it
VacancyInfos ==
    { [job_title |-> "Backend Engineer", company_name |-> "TechCorp"],
      [company_name |-> "TechCorp"] }

\* question dicts as the generation adapter returns them
GeneratedQuestions ==
    { [question |-> "Explain REST", question_type |-> "technical",
       difficulty_level |-> "hard", skills_assessed |-> <<"api">>],
      [question |-> "Tell me about yourself"] }

\* analyze_job_vacancy_sync(job_description)
VacancyResults ==
    { [success |-> FALSE, error |-> "Analysis error"] }
    \cup { [success |-> TRUE, vacancy_info |-> v] : v \in VacancyInfos }

\* generate_interview_questions_sync is not reached when the analysis failed
NotCalled == [success |-> FALSE, error |-> "not called"]

\* generate_interview_questions_sync(vacancy_info, interview_context)
QuestionsResults ==
    { [success |-> FALSE, error |-> "Question generation error"] }
    \cup { [success |-> TRUE, questions |-> qs] :
             qs \in SeqsUpTo(GeneratedQuestions, MaxQuestions) }

\* question_id arguments a caller may pass
QuestionIdArgs == { QId(1), QId(2), QId(3) }

\* question_id arguments a caller of the dict-based record_interview_answer
\* may pass: the id of the question at the pointer and a different one (the
\* function only copies the argument into the answer record)
DictQuestionIdArgs(session_id) ==
    IF session_id \in DOMAIN interview_sessions
    THEN { QId(interview_sessions[session_id].current_question_index + 1),
           QId(interview_sessions[session_id].current_question_index + 2) }
    ELSE { QId(1), QId(2) }

AnswerTexts == {"I am ..."}

\* a new dict session that is stored as completed
NewDictSessionCompleted(vacancy_info, questions) ==
    [ vacancy_info |-> vacancy_info,
      questions |-> questions,
      current_question_index |-> 0,
      answers |-> << >>,
      status |-> "completed",
      candidate_name |-> "Candidate" ]

\* a new dict session whose status is "active"
NewDictSessionActive(vacancy_info, questions) ==
    [ vacancy_info |-> vacancy_info,
      questions |-> questions,
      current_question_index |-> 0,
      answers |-> << >>,
      status |-> "active",
      candidate_name |-> "Candidate" ]

NewDictSession(vacancy_info, questions) ==
    [ vacancy_info |-> vacancy_info,
      questions |-> questions,
      current_question_index |-> 0,
      answers |-> << >>,
      status |-> "ready",
      candidate_name |-> "Candidate" ]

\* an error field that carries the text of the `output` field instead of the
\* adapter's message
AdapterErrorWrapped(r) == <<"Error:", Get(r, "error", "Unknown error")>>

\* `vacancy_result.get('error', 'Unknown error')`: the error field of a failed
\* analyze call
AdapterError(r) == Get(r, "error", "Unknown error")

\* an analyze_job_and_generate_questions that refuses to start a session
\* under an id that is already in the dictionary
analyze_rejecting_duplicates(vr, qr) ==
    /\ impl = "dict"
    /\ IF "default" \in DOMAIN interview_sessions
       THEN /\ last' = [op |-> "analyze", sid |-> "default",
                        replaced |-> FALSE,
                        adapters |-> << >>,
                        result |-> [error |-> "Session default already exists"]]
            /\ UNCHANGED interview_sessions
       ELSE IF ~vr.success
       THEN /\ last' = [op |-> "analyze", sid |-> "default",
                        replaced |-> FALSE,
                        adapters |-> <<vr>>,
                        result |-> [error |-> AdapterError(vr)]]
            /\ UNCHANGED interview_sessions
       ELSE IF ~qr.success
       THEN /\ last' = [op |-> "analyze", sid |-> "default",
                        replaced |-> FALSE,
                        adapters |-> <<vr, qr>>,
                        result |-> [vacancy_info |-> vr.vacancy_info,
                                    error |-> AdapterError(qr)]]
            /\ UNCHANGED interview_sessions
       ELSE /\ interview_sessions' =
                  Put(interview_sessions, "default",
                      NewDictSession(vr.vacancy_info, qr.questions))
            /\ last' = [op |-> "analyze", sid |-> "default",
                        replaced |-> FALSE,
                        adapters |-> <<vr, qr>>,
                        result |-> [vacancy_info |-> vr.vacancy_info,
                                    questions |-> qr.questions,
                                    session_id |-> "default",
                                    summary |-> [total_questions |-> Len(qr.questions)]]]
    /\ in_order' = IF vr.success /\ qr.success /\ "default" \notin DOMAIN interview_sessions
                   THEN TRUE ELSE in_order
    /\ UNCHANGED <<impl, questions_file, threads, session, now>>

\* `replaced` in the call record says whether the call overwrote a session
\* that was already stored under "default"; `adapters` lists the results of
\* the adapter calls the function made, in order
analyze_job_and_generate_questions(vr, qr) ==
    /\ impl = "dict"
    /\ IF ~vr.success
       THEN /\ last' = [op |-> "analyze", sid |-> "default",
                        replaced |-> FALSE,
                        adapters |-> <<vr>>,
                        result |-> [error |-> AdapterError(vr)]]
            /\ UNCHANGED interview_sessions
       ELSE IF ~qr.success
       THEN /\ last' = [op |-> "analyze", sid |-> "default",
                        replaced |-> FALSE,
                        adapters |-> <<vr, qr>>,
                        result |-> [vacancy_info |-> vr.vacancy_info,
                                    error |-> AdapterError(qr)]]
            /\ UNCHANGED interview_sessions
       ELSE /\ interview_sessions' =
                  Put(interview_sessions, "default",
                      NewDictSession(vr.vacancy_info, qr.questions))
            /\ last' = [op |-> "analyze", sid |-> "default",
                        replaced |-> ("default" \in DOMAIN interview_sessions),
                        adapters |-> <<vr, qr>>,
                        result |-> [vacancy_info |-> vr.vacancy_info,
                                    questions |-> qr.questions,
                                    session_id |-> "default",
                                    summary |-> [total_questions |-> Len(qr.questions)]]]
    /\ in_order' = IF vr.success /\ qr.success THEN TRUE ELSE in_order
    /\ UNCHANGED <<impl, questions_file, threads, session, now>>

\* the value ask_next_interview_question(session_id) returns over `sessions`
AskNextResult(sessions, session_id) ==
    IF session_id \notin DOMAIN sessions
    THEN [success |-> FALSE, error |-> "Session not found. Please start with job analysis first."]
    ELSE LET s == sessions[session_id]
             questions == s.questions
             current_index == s.current_question_index
         IN IF current_index >= Len(questions)
            THEN [success |-> TRUE,
                  status |-> "completed",
                  message |-> "Interview completed - no more questions",
                  session_summary |->
                      [total_questions |-> Len(questions),
                       total_answers |-> Len(s.answers),
                       position |-> Get(s.vacancy_info, "job_title", "Unknown")]]
            ELSE LET current_question == questions[current_index + 1]
                 IN [success |-> TRUE,
                     status |-> "success",
                     question |->
                         [id |-> QId(current_index + 1),
                          text |-> Get(current_question, "question", ""),
                          type |-> Get(current_question, "question_type", "general"),
                          difficulty |-> Get(current_question, "difficulty_level", "medium"),
                          skills_assessed |-> Get(current_question, "skills_assessed", << >>),
                          question_number |-> current_index + 1,
                          total_questions |-> Len(questions)],
                     session_info |->
                         [session_id |-> session_id,
                          position |-> Get(s.vacancy_info, "job_title", "Unknown Position"),
                          current_question |-> current_index + 1,
                          total_questions |-> Len(questions)]]

\* an ask_next_interview_question that moves the pointer past the question
\* it delivers
ask_next_advancing(session_id) ==
    /\ impl = "dict"
    /\ last' = [op |-> "next", sid |-> session_id,
                again |-> (last.op = "next" /\ last.sid = session_id),
                result |-> AskNextResult(interview_sessions, session_id)]
    /\ interview_sessions' =
          IF session_id \in DOMAIN interview_sessions
             /\ interview_sessions[session_id].current_question_index
                  < Len(interview_sessions[session_id].questions)
          THEN [interview_sessions EXCEPT ![session_id].current_question_index = @ + 1]
          ELSE interview_sessions
    /\ UNCHANGED <<impl, questions_file, threads, session, now, in_order>>

\* an ask_next_interview_question that creates the session it does not find
ask_next_creating(session_id) ==
    /\ impl = "dict"
    /\ last' = [op |-> "next", sid |-> session_id,
                again |-> (last.op = "next" /\ last.sid = session_id),
                result |-> AskNextResult(interview_sessions, session_id)]
    /\ interview_sessions' =
          IF session_id \in DOMAIN interview_sessions
          THEN interview_sessions
          ELSE Put(interview_sessions, session_id, NewDictSession(EmptyDict, << >>))
    /\ UNCHANGED <<impl, questions_file, threads, session, now, in_order>>

ask_next_interview_question(session_id) ==
    /\ impl = "dict"
    /\ last' = [op |-> "next", sid |-> session_id,
                again |-> (last.op = "next" /\ last.sid = session_id),
                result |-> AskNextResult(interview_sessions, session_id)]
    /\ UNCHANGED <<impl, questions_file, threads, interview_sessions, session, now, in_order>>

\* an answer_record that looks the question up by the number in the caller's
\* question_id instead of the pointer
AnswerRecordById(questions, current_index, question_id, answer_text, t) ==
    LET k == IF question_id[2] \in 1..Len(questions)
             THEN question_id[2] ELSE current_index + 1
        q == questions[k]
    IN [question_id |-> question_id,
        question_text |-> Get(q, "question", ""),
        answer_text |-> answer_text,
        notes |-> "",
        timestamp |-> IsoFormat(t),
        question_type |-> Get(q, "question_type", "general"),
        difficulty_level |-> Get(q, "difficulty_level", "medium"),
        skills_assessed |-> Get(q, "skills_assessed", << >>)]

\* answer_record: the snapshot of questions[current_index] taken at time t
AnswerRecord(questions, current_index, question_id, answer_text, t) ==
    LET q == questions[current_index + 1]
    IN [question_id |-> question_id,
        question_text |-> Get(q, "question", ""),
        answer_text |-> answer_text,
        notes |-> "",
        timestamp |-> IsoFormat(t),
        question_type |-> Get(q, "question_type", "general"),
        difficulty_level |-> Get(q, "difficulty_level", "medium"),
        skills_assessed |-> Get(q, "skills_assessed", << >>)]

\* record_interview_answer(session_id, question_id, answer_text) called at
\* time t over `sessions`: the dictionary it leaves and the value it returns
RecordAnswerOutcome(sessions, session_id, question_id, answer_text, t) ==
    IF session_id \notin DOMAIN sessions
    THEN [sessions |-> sessions,
          result |-> [success |-> FALSE, error |-> "Session not found"]]
    ELSE LET s == sessions[session_id]
             questions == s.questions
             current_index == s.current_question_index
         IN IF current_index >= Len(questions)
            THEN [sessions |-> sessions,
                  result |-> [success |-> FALSE,
                              error |-> "No more questions to answer"]]
            ELSE LET answer_record ==
                         AnswerRecord(questions, current_index, question_id,
                                      answer_text, t)
                     appended == [s EXCEPT !.answers = Append(@, answer_record),
                                           !.current_question_index = current_index + 1]
                     complete == appended.current_question_index >= Len(questions)
                     after == IF complete
                              THEN [appended EXCEPT !.status = "completed"]
                              ELSE appended
                     sessions2 == Put(sessions, session_id, after)
                 IN [sessions |-> sessions2,
                     result |->
                        IF complete
                        THEN [success |-> TRUE,
                              status |-> "completed",
                              message |-> "Interview completed successfully",
                              session_summary |->
                                 [total_questions |-> Len(questions),
                                  total_answers |-> Len(after.answers),
                                  position |-> Get(s.vacancy_info, "job_title", "Unknown")]]
                        ELSE [success |-> TRUE,
                              status |-> "success",
                              message |-> "Answer recorded successfully",
                              next_question |-> AskNextResult(sessions2, session_id)]]

record_interview_answer(session_id, question_id, answer_text) ==
    /\ impl = "dict"
    /\ LET outcome == RecordAnswerOutcome(interview_sessions, session_id,
                                          question_id, answer_text, now)
       IN /\ interview_sessions' = outcome.sessions
          /\ last' = [op |-> "record", sid |-> session_id, qid |-> question_id,
                      result |-> outcome.result]
    /\ in_order' = IF session_id \in DOMAIN interview_sessions
                   THEN in_order /\ question_id =
                          QId(interview_sessions[session_id].current_question_index + 1)
                   ELSE in_order
    /\ UNCHANGED <<impl, questions_file, threads, session, now>>

\* what the language model hands back to SynchronousFeedbackAgent: the call
\* raises, the text is not JSON, or the text parses to feedback_data
ModelResponses ==
    { [kind |-> "raised"],
      [kind |-> "text", json |-> FALSE],
      [kind |-> "text", json |-> TRUE,
       data |-> [overall_performance |-> [total_score |-> 7]]] }

\* _format_feedback_for_voice(feedback_data): the spoken text, which quotes
\* the overall score
_format_feedback_for_voice(feedback_data) ==
    <<"You scored", Get(Get(feedback_data, "overall_performance", EmptyDict),
                        "total_score", "N/A"), "out of 10 overall">>

\* provide_feedback_sync(questions, answers, vacancy_info, [], session_id,
\* candidate_name) when the language model answers with `response`
provide_feedback_sync(questions, answers, vacancy_info, session_id, candidate_name, response) ==
    IF questions = << >>
    THEN [success |-> FALSE, error |-> "No questions provided for feedback"]
    ELSE IF answers = << >>
    THEN [success |-> FALSE, error |-> "No answers provided for feedback"]
    ELSE IF DOMAIN vacancy_info = {}
    THEN [success |-> FALSE, error |-> "No vacancy information provided"]
    ELSE IF response.kind = "raised"
    THEN [success |-> FALSE, error |-> "Feedback generation error"]
    ELSE IF ~response.json
    THEN [success |-> FALSE, error |-> "JSON parsing error",
          raw_response |-> "not json"]
    ELSE LET feedback_data ==
                 Put(Put(Put(response.data, "session_id", session_id),
                         "candidate_name", candidate_name),
                     "position", Get(vacancy_info, "job_title", "Unknown Position"))
         IN [success |-> TRUE,
             feedback |-> feedback_data,
             voice_feedback |-> _format_feedback_for_voice(feedback_data),
             summary |->
                 [total_questions |-> Len(questions),
                  total_answers |-> Len(answers),
                  overall_score |-> Get(Get(feedback_data, "overall_performance",
                                            EmptyDict), "total_score", 0)]]

\* a store of the feedback that also closes the session
WithFeedbackClosing(s, feedback_result) ==
    Put(Put(Put(Put(s, "feedback", feedback_result.feedback),
                "voice_feedback", feedback_result.voice_feedback),
            "feedback_status", "completed"),
        "status", "closed")

\* session["feedback"], session["voice_feedback"], session["feedback_status"]
WithFeedback(s, feedback_result) ==
    Put(Put(Put(s, "feedback", feedback_result.feedback),
            "voice_feedback", feedback_result.voice_feedback),
        "feedback_status", "completed")

\* a feedback gate that lets every session through
FeedbackAllowedAlways(s) == TRUE

\* `if session.get("status") != "completed": return error`
FeedbackAllowed(s) == Get(s, "status", None) = "completed"

\* provide_feedback(session_id); `adapter_called` in the call record says
\* whether provide_feedback_sync was reached
provide_feedback(session_id, response) ==
    /\ impl = "dict"
    /\ IF session_id \notin DOMAIN interview_sessions
       THEN /\ last' = [op |-> "feedback", sid |-> session_id,
                        adapter_called |-> FALSE,
                        result |-> [success |-> FALSE, error |-> "Session not found"]]
            /\ UNCHANGED interview_sessions
       ELSE LET s == interview_sessions[session_id]
            IN IF ~FeedbackAllowed(s)
               THEN /\ last' = [op |-> "feedback", sid |-> session_id,
                                adapter_called |-> FALSE,
                                result |-> [success |-> FALSE,
                                            error |-> "Interview not completed yet. Please finish all questions first."]]
                    /\ UNCHANGED interview_sessions
               ELSE IF s.questions = << >> \/ s.answers = << >>
               THEN /\ last' = [op |-> "feedback", sid |-> session_id,
                                adapter_called |-> FALSE,
                                result |-> [success |-> FALSE,
                                            error |-> "No questions or answers found in session"]]
                    /\ UNCHANGED interview_sessions
               ELSE LET feedback_result ==
                            provide_feedback_sync(s.questions, s.answers,
                                                  s.vacancy_info, session_id,
                                                  Get(s, "candidate_name", "Candidate"),
                                                  response)
                    IN IF feedback_result.success
                       THEN /\ interview_sessions' =
                                  Put(interview_sessions, session_id,
                                      WithFeedback(s, feedback_result))
                            /\ last' = [op |-> "feedback", sid |-> session_id,
                                        adapter_called |-> TRUE,
                                        result |-> [success |-> TRUE,
                                                    feedback |-> feedback_result.feedback,
                                                    voice_feedback |-> feedback_result.voice_feedback,
                                                    summary |-> feedback_result.summary,
                                                    message |-> "Feedback generated successfully"]]
                       ELSE /\ last' = [op |-> "feedback", sid |-> session_id,
                                        adapter_called |-> TRUE,
                                        result |-> [success |-> FALSE,
                                                    error |-> feedback_result.error]]
                            /\ UNCHANGED interview_sessions
    /\ UNCHANGED <<impl, questions_file, threads, session, now, in_order>>

----------------------------------------------------------------------------
(* app/agents/interview/interview_agent.py: InterviewAgent *)

\* raw question records, as questions.json or an add_questions batch holds them
RawQuestions ==
    { [question_id |-> QId(1), question_text |-> "Explain REST",
       category |-> "technical", difficulty |-> "hard"],
      [question_id |-> QId(2), question_text |-> "Tell me about yourself",
       category |-> "behavioral"],
      [question_id |-> QId(3), category |-> "technical"] }

RawQuestionLists == SeqsUpTo(RawQuestions, MaxQuestions)

\* InterviewQuestion(**q_data): the required fields are present
ValidQuestion(q_data) ==
    {"question_id", "question_text", "category"} \subseteq DOMAIN q_data

InterviewQuestion(q_data) ==
    [question_id |-> q_data.question_id,
     question_text |-> q_data.question_text,
     category |-> q_data.category,
     difficulty |-> Get(q_data, "difficulty", "medium")]

\* the loop `for q_data in ...: questions.append(InterviewQuestion(**q_data))`:
\* the records appended before the first one that raises
RECURSIVE AppendedBeforeError(_)
AppendedBeforeError(raw) ==
    IF raw = << >> \/ ~ValidQuestion(Head(raw))
    THEN << >>
    ELSE <<InterviewQuestion(Head(raw))>> \o AppendedBeforeError(Tail(raw))

AllValid(raw) == \A i \in 1..Len(raw) : ValidQuestion(raw[i])

InterviewSession(questions, start_time) ==
    [session_id |-> "s1",
     candidate_name |-> "Ana",
     position |-> "Backend Eng",
     start_time |-> start_time,
     current_question_index |-> 0,
     questions |-> questions,
     answers |-> << >>,
     session_status |-> "active"]

\* InterviewAgent.__init__ with _load_questions over the file's records
NewInterviewAgent(file_questions, start_time) ==
    InterviewSession(AppendedBeforeError(file_questions), start_time)

add_questions(questions) ==
    /\ impl \in {"agent", "legacy"}
    /\ Len(session.questions) + Len(questions) <= MaxQuestions
    /\ session' = [session EXCEPT !.questions = @ \o AppendedBeforeError(questions)]
    /\ last' = [op |-> "add", sid |-> "s1",
                result |-> IF AllValid(questions)
                           THEN [status |-> "success",
                                 total_questions |-> Len(session'.questions)]
                           ELSE [status |-> "error",
                                 message |-> "Failed to add questions"]]
    /\ in_order' = (in_order /\ (session.answers = << >>
                                  \/ AppendedBeforeError(questions) = << >>))
    /\ UNCHANGED <<impl, questions_file, threads, interview_sessions, now>>

\* a formatting that leaves out a zero minutes unit after the hours
_get_elapsed_time_skipping_zero(s, t) ==
    LET total_seconds == t - s.start_time
        hours == total_seconds \div 3600
        remainder == total_seconds % 3600
        minutes == remainder \div 60
        seconds == remainder % 60
    IN IF hours > 0 /\ minutes > 0
       THEN << <<hours, "h">>, <<minutes, "m">>, <<seconds, "s">> >>
       ELSE IF hours > 0
       THEN << <<hours, "h">>, <<seconds, "s">> >>
       ELSE IF minutes > 0
       THEN << <<minutes, "m">>, <<seconds, "s">> >>
       ELSE << <<seconds, "s">> >>

_get_elapsed_time(s, t) ==
    LET total_seconds == t - s.start_time
        hours == total_seconds \div 3600
        remainder == total_seconds % 3600
        minutes == remainder \div 60
        seconds == remainder % 60
    IN IF hours > 0
       THEN << <<hours, "h">>, <<minutes, "m">>, <<seconds, "s">> >>
       ELSE IF minutes > 0
       THEN << <<minutes, "m">>, <<seconds, "s">> >>
       ELSE << <<seconds, "s">> >>

\* a summary without the `if not self.session.answers` branch
_get_session_summary_unguarded(s, t) ==
    LET idx == 1..Len(s.answers)
        cats == {s.answers[i].question_category : i \in idx}
    IN [total_questions_asked |-> Len(s.answers),
        categories_covered |->
            [c \in cats |->
               [count |-> Cardinality({i \in idx : s.answers[i].question_category = c})]],
        completion_time |-> IsoFormat(t)]

\* a summary whose category counts start at 1 instead of 0
_get_session_summary_overcount(s, t) ==
    IF s.answers = << >>
    THEN [message |-> "No answers recorded yet"]
    ELSE LET idx == 1..Len(s.answers)
             cats == {s.answers[i].question_category : i \in idx}
         IN [total_questions_asked |-> Len(s.answers),
             categories_covered |->
                 [c \in cats |->
                    [count |-> 1 + Cardinality({i \in idx : s.answers[i].question_category = c})]],
             completion_time |-> IsoFormat(t)]

_get_session_summary(s, t) ==
    IF s.answers = << >>
    THEN [message |-> "No answers recorded yet"]
    ELSE LET idx == 1..Len(s.answers)
             cats == {s.answers[i].question_category : i \in idx}
         IN [total_questions_asked |-> Len(s.answers),
             categories_covered |->
                 [c \in cats |->
                    [count |-> Cardinality({i \in idx : s.answers[i].question_category = c})]],
             completion_time |-> IsoFormat(t)]

\* the value InterviewAgent.get_next_question() returns on session s at time t
get_next_question_result(s, t) ==
    IF s.current_question_index >= Len(s.questions)
    THEN [status |-> "completed",
          message |-> "Interview completed - no more questions",
          session_summary |-> _get_session_summary(s, t)]
    ELSE LET current_question == s.questions[s.current_question_index + 1]
         IN [status |-> "success",
             question |->
                 [id |-> current_question.question_id,
                  text |-> current_question.question_text,
                  category |-> current_question.category,
                  difficulty |-> current_question.difficulty,
                  question_number |-> s.current_question_index + 1,
                  total_questions |-> Len(s.questions)],
             session_info |->
                 [candidate_name |-> s.candidate_name,
                  position |-> s.position,
                  elapsed_time |-> _get_elapsed_time(s, t)]]

\* a get_next_question that moves the pointer past the question it delivers
get_next_question_advancing ==
    /\ impl = "agent"
    /\ last' = [op |-> "next", sid |-> "s1",
                again |-> (last.op = "next"),
                result |-> get_next_question_result(session, now)]
    /\ session' = IF session.current_question_index < Len(session.questions)
                  THEN [session EXCEPT !.current_question_index = @ + 1]
                  ELSE session
    /\ UNCHANGED <<impl, questions_file, threads, interview_sessions, now, in_order>>

get_next_question ==
    /\ impl = "agent"
    /\ last' = [op |-> "next", sid |-> "s1",
                again |-> (last.op = "next"),
                result |-> get_next_question_result(session, now)]
    /\ UNCHANGED <<impl, questions_file, threads, interview_sessions, session, now, in_order>>

\* `for q in self.session.questions: if q.question_id == question_id: ... break`
FindQuestion(questions, question_id) ==
    LET hits == {i \in 1..Len(questions) : questions[i].question_id = question_id}
    IN IF hits = {}
       THEN None
       ELSE questions[CHOOSE i \in hits : \A j \in hits : i <= j]

\* the id of the question at the pointer, None when the pointer is at the end
DeliveredId(s) ==
    IF s.current_question_index < Len(s.questions)
    THEN s.questions[s.current_question_index + 1].question_id
    ELSE None

\* a completion test that never fires
InterviewCompleteNever(s) == FALSE

\* the completion test with > for >=
InterviewCompleteStrict(s) == s.current_question_index > Len(s.questions)

\* `if self.session.current_question_index >= len(self.session.questions)`
InterviewComplete(s) == s.current_question_index >= Len(s.questions)

\* record_answer that overwrites the answer log with the new record
RecordedReplacing(s, question_id, answer_text, current_question, t) ==
    [s EXCEPT !.answers = <<[question_id |-> question_id,
                             answer_text |-> answer_text,
                             notes |-> "",
                             timestamp |-> IsoFormat(t),
                             question_category |-> current_question.category,
                             question_difficulty |-> current_question.difficulty]>>,
              !.current_question_index = @ + 1]

\* record_answer without `self.session.current_question_index += 1`
RecordedNoIncrement(s, question_id, answer_text, current_question, t) ==
    [s EXCEPT !.answers = Append(@, [question_id |-> question_id,
                                     answer_text |-> answer_text,
                                     notes |-> "",
                                     timestamp |-> IsoFormat(t),
                                     question_category |-> current_question.category,
                                     question_difficulty |-> current_question.difficulty])]

\* the session after the append and the pointer increment of record_answer
Recorded(s, question_id, answer_text, current_question, t) ==
    [s EXCEPT !.answers = Append(@, [question_id |-> question_id,
                                     answer_text |-> answer_text,
                                     notes |-> "",
                                     timestamp |-> IsoFormat(t),
                                     question_category |-> current_question.category,
                                     question_difficulty |-> current_question.difficulty]),
              !.current_question_index = @ + 1]

record_answer(question_id, answer_text) ==
    /\ impl = "agent"
    /\ Len(session.answers) < MaxAnswers
    /\ LET current_question == FindQuestion(session.questions, question_id)
       IN IF current_question = None
          THEN /\ last' = [op |-> "record", sid |-> "s1", qid |-> question_id,
                           result |-> [status |-> "error",
                                       message |-> "Question not found"]]
               /\ UNCHANGED session
          ELSE LET appended == Recorded(session, question_id, answer_text,
                                        current_question, now)
                   complete == InterviewComplete(appended)
                   after == IF complete
                            THEN [appended EXCEPT !.session_status = "completed"]
                            ELSE appended
               IN /\ session' = after
                  /\ last' =
                       [op |-> "record", sid |-> "s1", qid |-> question_id,
                        result |->
                          IF complete
                          THEN [status |-> "completed",
                                message |-> "Interview completed successfully",
                                session_summary |-> _get_session_summary(after, now)]
                          ELSE [status |-> "success",
                                message |-> "Answer recorded successfully",
                                next_question |-> get_next_question_result(after, now)]]
    /\ in_order' = (in_order /\ question_id = DeliveredId(session))
    /\ UNCHANGED <<impl, questions_file, threads, interview_sessions, now>>

pause_interview ==
    /\ impl = "agent"
    /\ session' = [session EXCEPT !.session_status = "paused"]
    /\ last' = [op |-> "pause", sid |-> "s1",
                result |-> [status |-> "success",
                            message |-> "Interview paused",
                            session_info |->
                               [status |-> "paused",
                                current_question |-> session.current_question_index + 1,
                                total_questions |-> Len(session.questions),
                                elapsed_time |-> _get_elapsed_time(session, now)]]]
    /\ UNCHANGED <<impl, questions_file, threads, interview_sessions, now, in_order>>

\* a resume_interview without the `session_status != "paused"` test
resume_unguarded ==
    /\ impl = "agent"
    /\ session' = [session EXCEPT !.session_status = "active"]
    /\ last' = [op |-> "resume", sid |-> "s1",
                result |-> [status |-> "success",
                            message |-> "Interview resumed",
                            next_question |->
                               get_next_question_result(session', now)]]
    /\ UNCHANGED <<impl, questions_file, threads, interview_sessions, now, in_order>>

resume_interview ==
    /\ impl = "agent"
    /\ IF session.session_status # "paused"
       THEN /\ last' = [op |-> "resume", sid |-> "s1",
                        result |-> [status |-> "error",
                                    message |-> "Interview is not paused"]]
            /\ UNCHANGED session
       ELSE /\ session' = [session EXCEPT !.session_status = "active"]
            /\ last' = [op |-> "resume", sid |-> "s1",
                        result |-> [status |-> "success",
                                    message |-> "Interview resumed",
                                    next_question |->
                                       get_next_question_result(session', now)]]
    /\ UNCHANGED <<impl, questions_file, threads, interview_sessions, now, in_order>>

\* len(answers) / len(questions) * 100, kept as the exact fraction num/den
\* (the float the code computes is this value up to rounding); 0 without
\* questions
PercentageComplete(s) ==
    IF s.questions # << >>
    THEN [num |-> Len(s.answers) * 100, den |-> Len(s.questions)]
    ELSE [num |-> 0, den |-> 1]

\* the value InterviewAgent.get_session_status() returns on session s at time t
get_session_status_result(s, t) ==
    [session_id |-> s.session_id,
     candidate_name |-> s.candidate_name,
     position |-> s.position,
     status |-> s.session_status,
     progress |->
         [current_question |-> s.current_question_index + 1,
          total_questions |-> Len(s.questions),
          completed_questions |-> Len(s.answers),
          percentage_complete |-> PercentageComplete(s)],
     elapsed_time |-> _get_elapsed_time(s, t),
     start_time |-> IsoFormat(s.start_time)]

get_session_status ==
    /\ impl = "agent"
    /\ last' = [op |-> "status", sid |-> "s1",
                result |-> get_session_status_result(session, now)]
    /\ UNCHANGED <<impl, questions_file, threads, interview_sessions, session, now, in_order>>

----------------------------------------------------------------------------
(* app/agents/interview/interview_agent.py: the tool functions.  Each call  *)
(* builds InterviewAgent(session_id, "Demo Candidate", "Demo Position"),    *)
(* which loads questions.json, calls one method on it and drops the object. *)

\* InterviewAgent(session_id, "Demo Candidate", "Demo Position") built at time t
DemoAgent(session_id, t) ==
    [NewInterviewAgent(questions_file, t) EXCEPT !.session_id = session_id,
                                                 !.candidate_name = "Demo Candidate",
                                                 !.position = "Demo Position"]

start_interview_session(session_id) ==
    /\ impl = "tools"
    /\ last' = [op |-> "tool_start", sid |-> session_id,
                result |-> [status |-> "success",
                            message |-> "Interview session started",
                            session_id |-> session_id,
                            position |-> "Backend Eng"]]
    /\ UNCHANGED <<impl, questions_file, threads, interview_sessions, session, now, in_order>>

\* the `questions` argument is ignored
add_interview_questions(session_id, questions) ==
    /\ impl = "tools"
    /\ last' = [op |-> "tool_add", sid |-> session_id,
                result |-> [status |-> "success",
                            message |-> <<"Questions loaded from JSON file. Total questions:",
                                          Len(DemoAgent(session_id, now).questions)>>]]
    /\ UNCHANGED <<impl, questions_file, threads, interview_sessions, session, now, in_order>>

get_next_interview_question(session_id) ==
    /\ impl = "tools"
    /\ last' = [op |-> "tool_next", sid |-> session_id,
                result |-> get_next_question_result(DemoAgent(session_id, now), now)]
    /\ UNCHANGED <<impl, questions_file, threads, interview_sessions, session, now, in_order>>

\* record_interview_answer(session_id, question_id, answer_text) of the
\* interview module: agent.record_answer on the agent just built
tool_record_interview_answer(session_id, question_id, answer_text) ==
    /\ impl = "tools"
    /\ LET agent == DemoAgent(session_id, now)
           current_question == FindQuestion(agent.questions, question_id)
       IN IF current_question = None
          THEN last' = [op |-> "tool_record", sid |-> session_id, qid |-> question_id,
                        result |-> [status |-> "error",
                                    message |-> "Question not found"]]
          ELSE LET appended == Recorded(agent, question_id, answer_text,
                                        current_question, now)
                   complete == InterviewComplete(appended)
                   after == IF complete
                            THEN [appended EXCEPT !.session_status = "completed"]
                            ELSE appended
               IN last' =
                    [op |-> "tool_record", sid |-> session_id, qid |-> question_id,
                     result |->
                       IF complete
                       THEN [status |-> "completed",
                             message |-> "Interview completed successfully",
                             session_summary |-> _get_session_summary(after, now)]
                       ELSE [status |-> "success",
                             message |-> "Answer recorded successfully",
                             next_question |-> get_next_question_result(after, now)]]
    /\ UNCHANGED <<impl, questions_file, threads, interview_sessions, session, now, in_order>>

get_interview_status(session_id) ==
    /\ impl = "tools"
    /\ last' = [op |-> "tool_status", sid |-> session_id,
                result |-> get_session_status_result(DemoAgent(session_id, now), now)]
    /\ UNCHANGED <<impl, questions_file, threads, interview_sessions, session, now, in_order>>

----------------------------------------------------------------------------
(* app/agents/interview_agent.py: the older InterviewAgent.  Its             *)
(* get_next_question and record_answer call self._get_session_summary() and *)
(* self._get_elapsed_time(), which this class does not define: the call     *)
(* raises AttributeError.                                                   *)

\* get_next_question has no try: the exception reaches the caller
legacy_get_next_question ==
    /\ impl = "legacy"
    /\ last' = [op |-> "next", sid |-> "s1",
                again |-> (last.op = "next"),
                result |-> [status |-> "raised", exception |-> "AttributeError"]]
    /\ UNCHANGED <<impl, questions_file, threads, interview_sessions, session, now, in_order>>

\* record_answer: the append and the increment come first, then the helper
\* call raises inside the try and the handler returns status "error"
legacy_record_answer(question_id, answer_text) ==
    /\ impl = "legacy"
    /\ Len(session.answers) < MaxAnswers
    /\ LET current_question == FindQuestion(session.questions, question_id)
       IN IF current_question = None
          THEN /\ last' = [op |-> "record", sid |-> "s1", qid |-> question_id,
                           result |-> [status |-> "error",
                                       message |-> "Question not found"]]
               /\ UNCHANGED session
          ELSE LET appended == Recorded(session, question_id, answer_text,
                                        current_question, now)
                   complete == InterviewComplete(appended)
               IN /\ session' = IF complete
                                THEN [appended EXCEPT !.session_status = "completed"]
                                ELSE appended
                  /\ last' = [op |-> "record", sid |-> "s1", qid |-> question_id,
                              result |-> [status |-> "error",
                                          message |-> "Failed to record answer: AttributeError"]]
    /\ in_order' = (in_order /\ question_id = DeliveredId(session))
    /\ UNCHANGED <<impl, questions_file, threads, interview_sessions, now>>

----------------------------------------------------------------------------
(* app/agents/interview_agent.py: ask_next_interview_question_sync and      *)
(* record_interview_answer_sync, the second copy of the dict-based           *)
(* operations; they import interview_sessions from app/agent.py and work on  *)
(* the same dictionary.  Their call records carry copy |-> "sync".           *)

\* a copy whose completion summary falls back to "Unknown Position"
AskNextSyncResultOtherDefault(sessions, session_id) ==
    IF session_id \notin DOMAIN sessions
    THEN [success |-> FALSE, error |-> "Session not found. Please start with job analysis first."]
    ELSE LET s == Get(sessions, session_id, EmptyDict)
             questions == Get(s, "questions", << >>)
             current_index == Get(s, "current_question_index", 0)
         IN IF current_index >= Len(questions)
            THEN [success |-> TRUE,
                  status |-> "completed",
                  message |-> "Interview completed - no more questions",
                  session_summary |->
                      [total_questions |-> Len(questions),
                       total_answers |-> Len(Get(s, "answers", << >>)),
                       position |-> Get(Get(s, "vacancy_info", EmptyDict),
                                        "job_title", "Unknown Position")]]
            ELSE AskNextResult(sessions, session_id)

\* the value ask_next_interview_question_sync(session_id) returns over `sessions`
AskNextSyncResult(sessions, session_id) ==
    IF session_id \notin DOMAIN sessions
    THEN [success |-> FALSE, error |-> "Session not found. Please start with job analysis first."]
    ELSE LET s == sessions[session_id]
             questions == Get(s, "questions", << >>)
             current_index == Get(s, "current_question_index", 0)
         IN IF current_index >= Len(questions)
            THEN [success |-> TRUE,
                  status |-> "completed",
                  message |-> "Interview completed - no more questions",
                  session_summary |->
                      [total_questions |-> Len(questions),
                       total_answers |-> Len(Get(s, "answers", << >>)),
                       position |-> Get(Get(s, "vacancy_info", EmptyDict),
                                        "job_title", "Unknown")]]
            ELSE LET current_question == questions[current_index + 1]
                 IN [success |-> TRUE,
                     status |-> "success",
                     question |->
                         [id |-> QId(current_index + 1),
                          text |-> Get(current_question, "question", ""),
                          type |-> Get(current_question, "question_type", "general"),
                          difficulty |-> Get(current_question, "difficulty_level", "medium"),
                          skills_assessed |-> Get(current_question, "skills_assessed", << >>),
                          question_number |-> current_index + 1,
                          total_questions |-> Len(questions)],
                     session_info |->
                         [session_id |-> session_id,
                          position |-> Get(Get(s, "vacancy_info", EmptyDict),
                                           "job_title", "Unknown Position"),
                          current_question |-> current_index + 1,
                          total_questions |-> Len(questions)]]

\* record_interview_answer_sync(session_id, question_id, answer_text) called
\* at time t over `sessions`: the dictionary it leaves and the value it returns
RecordAnswerSyncOutcome(sessions, session_id, question_id, answer_text, t) ==
    IF session_id \notin DOMAIN sessions
    THEN [sessions |-> sessions,
          result |-> [success |-> FALSE, error |-> "Session not found"]]
    ELSE LET s == sessions[session_id]
             questions == Get(s, "questions", << >>)
             current_index == Get(s, "current_question_index", 0)
         IN IF current_index >= Len(questions)
            THEN [sessions |-> sessions,
                  result |-> [success |-> FALSE,
                              error |-> "No more questions to answer"]]
            ELSE LET with_answers == IF "answers" \in DOMAIN s
                                     THEN s ELSE Put(s, "answers", << >>)
                     q == questions[current_index + 1]
                     answer_record ==
                         [question_id |-> question_id,
                          question_text |-> Get(q, "question", ""),
                          answer_text |-> answer_text,
                          notes |-> "",
                          timestamp |-> IsoFormat(t),
                          question_type |-> Get(q, "question_type", "general"),
                          difficulty_level |-> Get(q, "difficulty_level", "medium"),
                          skills_assessed |-> Get(q, "skills_assessed", << >>)]
                     appended == Put(Put(with_answers, "answers",
                                         Append(with_answers.answers, answer_record)),
                                     "current_question_index", current_index + 1)
                     complete == appended.current_question_index >= Len(questions)
                     after == IF complete
                              THEN Put(appended, "status", "completed")
                              ELSE appended
                     sessions2 == Put(sessions, session_id, after)
                 IN [sessions |-> sessions2,
                     result |->
                        IF complete
                        THEN [success |-> TRUE,
                              status |-> "completed",
                              message |-> "Interview completed successfully",
                              session_summary |->
                                 [total_questions |-> Len(questions),
                                  total_answers |-> Len(after.answers),
                                  position |-> Get(Get(s, "vacancy_info", EmptyDict),
                                                   "job_title", "Unknown")]]
                        ELSE [success |-> TRUE,
                              status |-> "success",
                              message |-> "Answer recorded successfully",
                              next_question |-> AskNextSyncResult(sessions2, session_id)]]

ask_next_interview_question_sync(session_id) ==
    /\ impl = "dict"
    /\ last' = [op |-> "next", sid |-> session_id, copy |-> "sync",
                again |-> (last.op = "next" /\ last.sid = session_id),
                result |-> AskNextSyncResult(interview_sessions, session_id)]
    /\ UNCHANGED <<impl, questions_file, threads, interview_sessions, session, now, in_order>>

record_interview_answer_sync(session_id, question_id, answer_text) ==
    /\ impl = "dict"
    /\ LET outcome == RecordAnswerSyncOutcome(interview_sessions, session_id,
                                              question_id, answer_text, now)
       IN /\ interview_sessions' = outcome.sessions
          /\ last' = [op |-> "record", sid |-> session_id, qid |-> question_id,
                      copy |-> "sync", result |-> outcome.result]
    /\ in_order' = IF session_id \in DOMAIN interview_sessions
                   THEN in_order /\ question_id =
                          QId(interview_sessions[session_id].current_question_index + 1)
                   ELSE in_order
    /\ UNCHANGED <<impl, questions_file, threads, session, now>>

----------------------------------------------------------------------------
(* The wall clock *)

Tick ==
    /\ now < MaxTime
    /\ now' = now + 1
    /\ UNCHANGED <<impl, questions_file, threads, interview_sessions, session, last, in_order>>

----------------------------------------------------------------------------

\* The dictionary starts empty (app/agent.py:117); an InterviewAgent starts
\* with the questions its file yields; the tool functions keep no agent.
Init ==
    /\ impl \in {"dict", "agent", "legacy", "tools"}
    /\ questions_file \in IF impl = "tools" THEN RawQuestionLists ELSE {<< >>}
    /\ threads = [t \in Threads |-> Idle]
    /\ interview_sessions = EmptyDict
    /\ now = 0
    /\ session \in IF impl \in {"agent", "legacy"}
                   THEN {NewInterviewAgent(f, 0) : f \in RawQuestionLists}
                   ELSE {NewInterviewAgent(<< >>, 0)}
    /\ last = NoCall
    /\ in_order = TRUE

Next ==
    \/ \E vr \in VacancyResults :
         \E qr \in (IF vr.success THEN QuestionsResults ELSE {NotCalled}) :
             analyze_job_and_generate_questions(vr, qr)
    \/ \E s \in SessionIds : ask_next_interview_question(s)
    \/ \E s \in SessionIds :
         \E q \in DictQuestionIdArgs(s), a \in AnswerTexts :
             record_interview_answer(s, q, a)
    \/ \E s \in SessionIds, r \in ModelResponses : provide_feedback(s, r)
    \/ \E b \in RawQuestionLists : add_questions(b)
    \/ get_next_question
    \/ \E q \in QuestionIdArgs, a \in AnswerTexts : record_answer(q, a)
    \/ pause_interview
    \/ resume_interview
    \/ get_session_status
    \/ \E s \in SessionIds : start_interview_session(s)
    \/ \E s \in SessionIds, b \in RawQuestionLists : add_interview_questions(s, b)
    \/ \E s \in SessionIds : get_next_interview_question(s)
    \/ \E s \in SessionIds, q \in QuestionIdArgs, a \in AnswerTexts :
           tool_record_interview_answer(s, q, a)
    \/ \E s \in SessionIds : get_interview_status(s)
    \/ ask_next_interview_question_sync("default")
    \/ \E q \in DictQuestionIdArgs("default"), a \in AnswerTexts :
           record_interview_answer_sync("default", q, a)
    \/ legacy_get_next_question
    \/ \E q \in QuestionIdArgs, a \in AnswerTexts : legacy_record_answer(q, a)
    \/ Tick

Spec == Init /\ [][Next]_vars

----------------------------------------------------------------------------
(* The sequential interview flow: the caller starts a session, then keeps    *)
(* asking for the next question and answering it under the id it was given,  *)
(* until next_question reports completion.                                   *)

FlowStart ==
    /\ "default" \notin DOMAIN interview_sessions
    /\ \E vr \in {r \in VacancyResults : r.success} :
         \E qr \in {r \in QuestionsResults : r.success} :
             analyze_job_and_generate_questions(vr, qr)

FlowAsk ==
    /\ "default" \in DOMAIN interview_sessions
    /\ last.op # "next"
    /\ ask_next_interview_question("default")

FlowAnswer ==
    /\ last.op = "next"
    /\ last.result.status = "success"
    /\ \E a \in AnswerTexts :
         record_interview_answer("default", last.result.question.id, a)

AgentFlowAsk ==
    /\ last.op # "next"
    /\ get_next_question

AgentFlowAnswer ==
    /\ last.op = "next"
    /\ last.result.status = "success"
    /\ \E a \in AnswerTexts : record_answer(last.result.question.id, a)

FlowInit == Init /\ impl \in {"dict", "agent"}

FlowStep == FlowStart \/ FlowAsk \/ FlowAnswer \/ AgentFlowAsk \/ AgentFlowAnswer

FlowNext == FlowStep \/ Tick

\* the caller keeps going: a flow step that stays possible is taken
FlowSpec == FlowInit /\ [][FlowNext]_vars /\ WF_vars(FlowStep)

----------------------------------------------------------------------------
(* app/agent.py: record_interview_answer run by two threads without a lock.  *)
(* Each thread runs the function once, statement group by statement group;   *)
(* current_index is the thread's local variable, the session dict is shared. *)

\* lines 192-206: the lookups, the read of the pointer and the end test
RaceRead(t, question_id, answer_text) ==
    /\ threads[t].pc = "idle"
    /\ IF "default" \notin DOMAIN interview_sessions
       THEN threads' = [threads EXCEPT ![t] =
                          [pc |-> "done", question_id |-> question_id,
                           result |-> [success |-> FALSE, error |-> "Session not found"]]]
       ELSE IF Default.current_question_index >= Len(Default.questions)
       THEN threads' = [threads EXCEPT ![t] =
                          [pc |-> "done", question_id |-> question_id,
                           result |-> [success |-> FALSE,
                                       error |-> "No more questions to answer"]]]
       ELSE threads' = [threads EXCEPT ![t] =
                          [pc |-> "append", question_id |-> question_id,
                           answer_text |-> answer_text,
                           current_index |-> Default.current_question_index]]
    /\ UNCHANGED <<impl, questions_file, interview_sessions, session, now, last, in_order>>

\* lines 208-222: build answer_record from questions[current_index], append it
RaceAppend(t) ==
    /\ threads[t].pc = "append"
    /\ LET answer_record ==
               AnswerRecord(Default.questions, threads[t].current_index,
                            threads[t].question_id, threads[t].answer_text, now)
       IN interview_sessions' =
              [interview_sessions EXCEPT !["default"].answers = Append(@, answer_record)]
    /\ threads' = [threads EXCEPT ![t].pc = "write"]
    /\ UNCHANGED <<impl, questions_file, session, now, last, in_order>>

\* a write-back that increments the stored pointer instead of the local copy
RaceWriteIncrementing(t) ==
    /\ threads[t].pc = "write"
    /\ interview_sessions' =
          [interview_sessions EXCEPT !["default"].current_question_index = @ + 1]
    /\ threads' = [threads EXCEPT ![t].pc = "check"]
    /\ UNCHANGED <<impl, questions_file, session, now, last, in_order>>

\* line 223: session["current_question_index"] = current_index + 1
RaceWrite(t) ==
    /\ threads[t].pc = "write"
    /\ interview_sessions' =
          [interview_sessions EXCEPT !["default"].current_question_index =
                                        threads[t].current_index + 1]
    /\ threads' = [threads EXCEPT ![t].pc = "check"]
    /\ UNCHANGED <<impl, questions_file, session, now, last, in_order>>

\* lines 225-245: the completion test and the return
RaceReturn(t) ==
    /\ threads[t].pc = "check"
    /\ LET complete == Default.current_question_index >= Len(Default.questions)
           sessions2 == IF complete
                        THEN [interview_sessions EXCEPT !["default"].status = "completed"]
                        ELSE interview_sessions
           result ==
               IF complete
               THEN [success |-> TRUE,
                     status |-> "completed",
                     message |-> "Interview completed successfully",
                     session_summary |->
                        [total_questions |-> Len(Default.questions),
                         total_answers |-> Len(Default.answers),
                         position |-> Get(Default.vacancy_info, "job_title", "Unknown")]]
               ELSE [success |-> TRUE,
                     status |-> "success",
                     message |-> "Answer recorded successfully",
                     next_question |-> AskNextResult(sessions2, "default")]
       IN /\ interview_sessions' = sessions2
          /\ threads' = [threads EXCEPT ![t].pc = "done", ![t].result = result]
          /\ last' = [op |-> "record", sid |-> "default",
                      qid |-> threads[t].question_id, result |-> result]
    /\ UNCHANGED <<impl, questions_file, session, now, in_order>>

RaceInit == Init /\ impl = "dict"

RaceNext ==
    \/ FlowStart
    \/ \E t \in Threads, q \in QuestionIdArgs, a \in AnswerTexts : RaceRead(t, q, a)
    \/ \E t \in Threads : RaceAppend(t)
    \/ \E t \in Threads : RaceWrite(t)
    \/ \E t \in Threads : RaceReturn(t)
    \/ Tick

RaceSpec == RaceInit /\ [][RaceNext]_vars

----------------------------------------------------------------------------
(* Vocabulary of the properties *)

\* a result that reports failure: {"success": False, "error": ...} in
\* app/agent.py, {"status": "error", ...} in InterviewAgent
Failed(r) ==
    \/ "error" \in DOMAIN r
    \/ ("status" \in DOMAIN r /\ r.status = "error")

\* this step is a call of operation op (every call leaves the clock alone and
\* names itself in last; only Tick moves the clock)
CallStep(op) == now' = now /\ last'.op = op

\* the id next_question delivers for a dict session, None at the end
DictDeliveredId(s) ==
    IF s.current_question_index < Len(s.questions)
    THEN QId(s.current_question_index + 1)
    ELSE None

----------------------------------------------------------------------------
(* C1: in every reachable state, whatever calls were made and whether they  *)
(* succeeded or failed, current_question_index equals the number of         *)
(* recorded answers, in every session of interview_sessions and in the       *)
(* InterviewAgent's session.                                                *)
C1_IndexIsAnswerCount ==
    /\ \A id \in DOMAIN interview_sessions :
          interview_sessions[id].current_question_index
             = Len(interview_sessions[id].answers)
    /\ session.current_question_index = Len(session.answers)

\* an answer is on record and the last call was a record_answer that failed
C1_Witness ==
    /\ last.op = "record"
    /\ Failed(last.result)
    /\ \/ HasDefault /\ Len(Default.answers) = MaxQuestions
       \/ impl = "agent" /\ Len(session.answers) >= 1

(* C2: record_answer with a question_id other than the id of the question   *)
(* at the pointer fails and leaves index, answers and status unchanged.      *)
(* Stated as the claim has it; the code accepts such a call.                 *)
C2_MismatchRejected ==
    [][ /\ CallStep("record")
        /\ \/ /\ impl = "dict"
              /\ last'.sid \in DOMAIN interview_sessions
              /\ last'.qid # DictDeliveredId(interview_sessions[last'.sid])
           \/ /\ impl = "agent"
              /\ last'.qid # DeliveredId(session)
        => /\ Failed(last'.result)
           /\ interview_sessions' = interview_sessions
           /\ session' = session ]_vars

(* C3: a record_answer call that returns an error result leaves the          *)
(* session's index, answers and status as they were.  Stated as the claim   *)
(* has it; the older InterviewAgent reports an error after the append.       *)
C3_FailedRecordChangesNothing ==
    [][ CallStep("record") /\ Failed(last'.result)
        => /\ interview_sessions' = interview_sessions
           /\ session' = session ]_vars

(* C4: in every reachable state current_question_index is at most the       *)
(* number of questions.  Stated as the claim has it; InterviewAgent's        *)
(* record_answer does not look at the pointer.                               *)
C4_IndexWithinQuestions ==
    /\ \A id \in DOMAIN interview_sessions :
          interview_sessions[id].current_question_index
             <= Len(interview_sessions[id].questions)
    /\ session.current_question_index <= Len(session.questions)

(* C5: once the pointer is at the end of the questions or the status is     *)
(* completed, record_answer fails and records no answer.  Stated as the      *)
(* claim has it; InterviewAgent records the answer all the same.             *)
C5_NothingRecordedAtEnd ==
    [][ /\ CallStep("record")
        /\ \/ /\ impl = "dict"
              /\ last'.sid \in DOMAIN interview_sessions
              /\ LET s == interview_sessions[last'.sid]
                 IN s.current_question_index >= Len(s.questions)
                    \/ s.status = "completed"
           \/ /\ impl = "agent"
              /\ \/ session.current_question_index >= Len(session.questions)
                 \/ session.session_status = "completed"
        => /\ Failed(last'.result)
           /\ interview_sessions' = interview_sessions
           /\ session'.answers = session.answers ]_vars

(* C6: in every reachable state the status is completed if and only if the  *)
(* pointer equals the number of questions and there is at least one          *)
(* question.  Stated as the claim has it; pause_interview, add_questions and *)
(* a further record_answer break it in InterviewAgent.                       *)
C6_CompletedIffAtEnd ==
    /\ \A id \in DOMAIN interview_sessions :
          LET s == interview_sessions[id]
          IN (s.status = "completed")
                <=> (s.current_question_index = Len(s.questions) /\ Len(s.questions) > 0)
    /\ (session.session_status = "completed")
          <=> (/\ session.current_question_index = Len(session.questions)
               /\ Len(session.questions) > 0)

(* C7: for a session with N >= 1 questions answered in delivered order, the  *)
(* status is not completed while fewer than N answers are recorded, each of  *)
(* the first N-1 successful record_answer calls returns status "success" and *)
(* leaves the status not completed, and the N-th returns status "completed"  *)
(* and sets the status to completed.                                         *)
C7_CompletedExactlyOnNth ==
    /\ (HasDefault /\ in_order /\ Len(Default.questions) >= 1)
        => /\ Len(Default.answers) < Len(Default.questions)
                => Default.status # "completed"
           /\ (last.op = "record" /\ ~Failed(last.result))
                => /\ (Default.status = "completed")
                          <=> (Len(Default.answers) = Len(Default.questions))
                   /\ last.result.status =
                         IF Len(Default.answers) = Len(Default.questions)
                         THEN "completed" ELSE "success"
    /\ (impl = "agent" /\ in_order /\ Len(session.questions) >= 1)
        => /\ Len(session.answers) < Len(session.questions)
                => session.session_status # "completed"
           /\ (last.op = "record" /\ ~Failed(last.result))
                => /\ (session.session_status = "completed")
                          <=> (Len(session.answers) = Len(session.questions))
                   /\ last.result.status =
                         IF Len(session.answers) = Len(session.questions)
                         THEN "completed" ELSE "success"

\* the last of MaxQuestions questions has just been answered, all in order
C7_Witness ==
    /\ impl = "agent" /\ in_order
    /\ Len(session.questions) = MaxQuestions
    /\ Len(session.answers) = MaxQuestions
    /\ last.op = "record" /\ last.result.status = "completed"
    /\ session.session_status = "completed"

(* C8: a next_question call changes neither the session directory nor any   *)
(* session's questions, pointer, answers or status, whether the session      *)
(* exists or not and whether questions remain or not.                        *)
C8_NextChangesNothing ==
    [][ CallStep("next")
        => /\ interview_sessions' = interview_sessions
           /\ session' = session ]_vars

\* next_question was called twice in a row on a session that has an answer
C8_Witness ==
    /\ HasDefault
    /\ last.op = "next" /\ last.sid = "default" /\ last.again
    /\ Default.current_question_index >= 1
    /\ Default.current_question_index < Len(Default.questions)

\* a dict without the given keys
Without(d, keys) == [k \in DOMAIN d \ keys |-> d[k]]

\* a next_question result without the fields read off the clock
ClockFree(r) ==
    [k \in DOMAIN r |->
        IF k \in {"session_info", "session_summary"}
        THEN Without(r[k], {"elapsed_time", "completion_time"})
        ELSE r[k]]

(* C9 as the claim has it: two next_question calls in a row on the same      *)
(* session return identical results, every field included.  It fails for    *)
(* InterviewAgent when the clock moves between the calls.                    *)
C9_NextIdempotent ==
    [][ (last.op = "next" /\ CallStep("next") /\ last'.sid = last.sid)
        => last'.result = last.result ]_vars

(* C9 as amended: two next_question calls in a row on the same session       *)
(* return results that agree in every field except InterviewAgent's          *)
(* elapsed_time and completion_time, which are read off the clock at each    *)
(* call; the results of ask_next_interview_question are identical.           *)
C9_NextIdempotentButClock ==
    [][ (last.op = "next" /\ CallStep("next") /\ last'.sid = last.sid)
        => /\ ClockFree(last'.result) = ClockFree(last.result)
           /\ impl = "dict" => last'.result = last.result ]_vars

\* a second next_question in a row on an InterviewAgent, after the clock moved
C9_Witness ==
    /\ impl = "agent"
    /\ last.op = "next" /\ last.again
    /\ now > 0
    /\ last.result = get_next_question_result(session, now)
    /\ last.result.status = "success"

\* the number of answers of the log whose question_category is c
RECURSIVE AnswersOfCategory(_, _)
AnswersOfCategory(answers, c) ==
    IF answers = << >>
    THEN 0
    ELSE (IF Head(answers).question_category = c THEN 1 ELSE 0)
         + AnswersOfCategory(Tail(answers), c)

(* C10 as the claim has it: the record_answer that completes a session       *)
(* answered in order returns a summary with total_questions = N,             *)
(* total_answers = N and categories_covered mapping each category to its     *)
(* number of recorded answers.  Neither module returns that summary.         *)
C10_CompletionSummary ==
    (/\ impl \in {"dict", "agent"} /\ in_order
     /\ last.op = "record" /\ ~Failed(last.result)
     /\ last.result.status = "completed")
    => LET sm == last.result.session_summary
           answers == IF impl = "dict" THEN Default.answers ELSE session.answers
           N == IF impl = "dict" THEN Len(Default.questions) ELSE Len(session.questions)
       IN /\ {"total_questions", "total_answers", "categories_covered"} \subseteq DOMAIN sm
          /\ sm.total_questions = N
          /\ sm.total_answers = N
          /\ \A c \in DOMAIN sm.categories_covered :
                sm.categories_covered[c] = AnswersOfCategory(answers, c)

(* C10 as amended: for a session with N questions answered in order, the     *)
(* k-th record_answer (k < N) returns status "success" and, nested, what     *)
(* next_question returns in the resulting state (question k+1, position      *)
(* k+1, total N); the N-th returns status "completed" with a summary that    *)
(* in app/agent.py holds total_questions = N, total_answers = N and the      *)
(* position (no categories_covered), and in InterviewAgent holds             *)
(* total_questions_asked = N, completion_time and categories_covered, which  *)
(* maps each category of a recorded answer to {"count": number of recorded   *)
(* answers of that category} (no total_questions, no total_answers).         *)
C10_RecordOutcome ==
    [][ (CallStep("record") /\ in_order' /\ ~Failed(last'.result))
        => /\ impl = "dict" =>
                LET s == interview_sessions'[last'.sid]
                    k == Len(s.answers)
                    N == Len(s.questions)
                    r == last'.result
                IN IF k < N
                   THEN /\ r.status = "success"
                        /\ r.next_question = AskNextResult(interview_sessions', last'.sid)
                        /\ r.next_question.question.id = QId(k + 1)
                        /\ r.next_question.question.text = Get(s.questions[k + 1], "question", "")
                        /\ r.next_question.question.question_number = k + 1
                        /\ r.next_question.question.total_questions = N
                   ELSE /\ r.status = "completed"
                        /\ DOMAIN r.session_summary
                              = {"total_questions", "total_answers", "position"}
                        /\ r.session_summary.total_questions = N
                        /\ r.session_summary.total_answers = N
           /\ impl = "agent" =>
                LET s == session'
                    k == Len(s.answers)
                    N == Len(s.questions)
                    r == last'.result
                IN IF k < N
                   THEN /\ r.status = "success"
                        /\ r.next_question = get_next_question_result(s, now')
                        /\ r.next_question.question.id = s.questions[k + 1].question_id
                        /\ r.next_question.question.text = s.questions[k + 1].question_text
                        /\ r.next_question.question.question_number = k + 1
                        /\ r.next_question.question.total_questions = N
                   ELSE /\ r.status = "completed"
                        /\ DOMAIN r.session_summary
                              = {"total_questions_asked", "categories_covered",
                                 "completion_time"}
                        /\ r.session_summary.total_questions_asked = N
                        /\ DOMAIN r.session_summary.categories_covered
                              = {s.answers[i].question_category : i \in 1..k}
                        /\ \A c \in DOMAIN r.session_summary.categories_covered :
                              r.session_summary.categories_covered[c]
                                 = [count |-> AnswersOfCategory(s.answers, c)] ]_vars

\* an InterviewAgent session of MaxQuestions questions, of two categories,
\* has just been completed in order
C10_Witness ==
    /\ impl = "agent" /\ in_order
    /\ last.op = "record" /\ last.result.status = "completed"
    /\ Len(session.answers) = MaxQuestions
    /\ Cardinality(DOMAIN last.result.session_summary.categories_covered) = 2

----------------------------------------------------------------------------
(* C11 *)

\* C11 as stated: on a session without questions, next_question reports
\* completion and its summary carries total_questions = 0 and
\* total_answers = 0, in app/agent.py and in InterviewAgent alike.
C11_EmptySessionCounts ==
    /\ (HasDefault /\ last.op = "next" /\ last.sid = "default"
          /\ Default.questions = << >>)
       => /\ last.result.status = "completed"
          /\ "total_questions" \in DOMAIN last.result.session_summary
          /\ last.result.session_summary.total_questions = 0
          /\ last.result.session_summary.total_answers = 0
    /\ (impl = "agent" /\ last.op = "next" /\ session.questions = << >>)
       => /\ last.result.status = "completed"
          /\ "total_questions" \in DOMAIN last.result.session_summary
          /\ last.result.session_summary.total_questions = 0
          /\ last.result.session_summary.total_answers = 0

\* C11, amended: on a session without questions, next_question reports
\* completion.  In app/agent.py the summary carries total_questions = 0 and
\* total_answers = 0; InterviewAgent (called directly or through
\* get_next_interview_question) answers with the summary
\* {"message": "No answers recorded yet"}, which carries no count.
C11_EmptySessionCompletes ==
    /\ (HasDefault /\ last.op = "next" /\ last.sid = "default"
          /\ Default.questions = << >>)
       => /\ last.result.success
          /\ last.result.status = "completed"
          /\ last.result.session_summary.total_questions = 0
          /\ last.result.session_summary.total_answers = 0
    /\ (\/ impl = "agent" /\ last.op = "next" /\ session.questions = << >>
        \/ impl = "tools" /\ last.op = "tool_next"
             /\ AppendedBeforeError(questions_file) = << >>)
       => /\ last.result.status = "completed"
          /\ last.result.session_summary = [message |-> "No answers recorded yet"]

C11_Witness ==
    /\ impl = "agent"
    /\ last.op = "next"
    /\ session.questions = << >>
    /\ last.result.status = "completed"

----------------------------------------------------------------------------
(* C12 *)

\* C12: provide_feedback on a session that does not exist or whose status
\* is not "completed" returns an error, does not reach provide_feedback_sync
\* and leaves the sessions unchanged; whenever the adapter is reached the
\* session is completed, so the answer to its last question has been
\* recorded (the pointer stands at the end and the answer log is non-empty).
C12_FeedbackOnlyWhenCompleted ==
    [][CallStep("feedback") =>
         LET sid == last'.sid
             exists == sid \in DOMAIN interview_sessions
         IN /\ (~exists \/ interview_sessions[sid].status # "completed")
               => /\ Failed(last'.result)
                  /\ ~last'.adapter_called
                  /\ interview_sessions' = interview_sessions
            /\ last'.adapter_called
               => /\ exists
                  /\ interview_sessions[sid].status = "completed"
                  /\ interview_sessions[sid].current_question_index
                       = Len(interview_sessions[sid].questions)
                  /\ Len(interview_sessions[sid].answers)
                       = Len(interview_sessions[sid].questions)
                  /\ interview_sessions[sid].answers # << >>]_vars

C12_Witness ==
    /\ impl = "dict"
    /\ last.op = "feedback"
    /\ last.adapter_called
    /\ last.result.success
    /\ interview_sessions[last.sid].feedback_status = "completed"

----------------------------------------------------------------------------
(* C13 *)

\* C13 as stated: starting a session under an id that already exists
\* fails with an error and leaves the existing session unchanged
\* (analyze_job_and_generate_questions always uses the id "default").
C13_DuplicateStartRejected ==
    [][(CallStep("analyze") /\ "default" \in DOMAIN interview_sessions)
         => /\ Failed(last'.result)
            /\ interview_sessions' = interview_sessions]_vars

\* C13, amended: there is no duplicate-session error.  A job analysis fails
\* only with the error of one of its two adapters and then leaves the
\* dictionary unchanged; when both adapters succeed it stores a fresh session
\* (pointer 0, no answers, status "ready") under "default", replacing the
\* session that was there.  start_interview_session keeps no session
\* directory: it succeeds for every id and changes nothing.
C13_AnalysisReplacesSession ==
    [][/\ CallStep("analyze")
          => IF Failed(last'.result)
             THEN /\ last'.result.error \in {"Analysis error", "Question generation error"}
                  /\ interview_sessions' = interview_sessions
             ELSE interview_sessions' =
                    Put(interview_sessions, "default",
                        NewDictSession(last'.result.vacancy_info,
                                       last'.result.questions))
       /\ CallStep("tool_start")
          => /\ last'.result.status = "success"
             /\ UNCHANGED <<questions_file, interview_sessions, session>>]_vars

\* a successful analysis has just replaced a session
C13_Witness ==
    /\ HasDefault
    /\ last.op = "analyze"
    /\ last.replaced
    /\ ~Failed(last.result)
    /\ Default = NewDictSession(last.result.vacancy_info, last.result.questions)

----------------------------------------------------------------------------
(* C14 *)

IsPrefix(a, b) == Len(a) <= Len(b) /\ SubSeq(b, 1, Len(a)) = a

\* C14 as stated: the answer log only grows at its end: whatever operation
\* runs (next_question, record_answer, feedback, a further job analysis),
\* every session is still there afterwards and its earlier log is a prefix
\* of its later log.
C14_AnswersAppendOnly ==
    [][/\ IsPrefix(session.answers, session'.answers)
       /\ \A id \in DOMAIN interview_sessions :
             /\ id \in DOMAIN interview_sessions'
             /\ IsPrefix(interview_sessions[id].answers,
                         interview_sessions'[id].answers)]_vars

\* C14, amended: the answer log is append-only under next_question,
\* record_answer, pause, resume, add_questions, provide_feedback and a failed
\* job analysis; a successful job analysis replaces the session stored under
\* "default" and with it discards the answers recorded so far.
C14_AppendOnlyUntilReplaced ==
    [][/\ IsPrefix(session.answers, session'.answers)
       /\ \A id \in DOMAIN interview_sessions :
             /\ id \in DOMAIN interview_sessions'
             /\ IF CallStep("analyze") /\ ~Failed(last'.result) /\ id = "default"
                THEN interview_sessions'[id].answers = << >>
                ELSE IsPrefix(interview_sessions[id].answers,
                              interview_sessions'[id].answers)]_vars

\* two answers are on record and feedback was given after them
C14_Witness ==
    /\ HasDefault
    /\ Len(Default.answers) >= 2
    /\ last.op = "feedback"
    /\ last.result.success

----------------------------------------------------------------------------
(* C15 *)

\* C15: progress persists across the tool calls of the interview module:
\* right after record_interview_answer has recorded an answer and announced
\* the next question, get_next_interview_question on the same session
\* returns that question and get_interview_status counts the recorded answer.
C15_ToolProgressPersists ==
    [][(last.op = "tool_record" /\ last.result.status = "success")
         => /\ (CallStep("tool_next") /\ last'.sid = last.sid)
               => /\ last'.result.status = "success"
                  /\ last'.result.question.id
                       = last.result.next_question.question.id
            /\ (CallStep("tool_status") /\ last'.sid = last.sid)
               => last'.result.progress.completed_questions >= 1]_vars

----------------------------------------------------------------------------
(* C16 *)

\* C16: pause succeeds only on an active session; on a paused or completed
\* session it fails and leaves the status unchanged, so the status "paused"
\* is entered from "active" only.
C16_PauseOnlyWhenActive ==
    [][/\ CallStep("pause")
          => IF session.session_status = "active"
             THEN /\ ~Failed(last'.result)
                  /\ session'.session_status = "paused"
             ELSE /\ Failed(last'.result)
                  /\ session'.session_status = session.session_status
       /\ (session'.session_status = "paused" /\ session.session_status # "paused")
          => session.session_status = "active"]_vars

----------------------------------------------------------------------------
(* C17 *)

\* C17: resume on a session that is not paused fails and changes nothing;
\* on a paused session it sets the status to active, changes neither the
\* pointer nor the answers nor anything else, and its next_question field is
\* exactly what get_next_question returns in the resulting state.
C17_ResumeOnlyWhenPaused ==
    [][CallStep("resume")
         => IF session.session_status # "paused"
            THEN /\ Failed(last'.result)
                 /\ session' = session
            ELSE /\ ~Failed(last'.result)
                 /\ session' = [session EXCEPT !.session_status = "active"]
                 /\ session'.current_question_index = session.current_question_index
                 /\ session'.answers = session.answers
                 /\ last'.result.next_question
                      = get_next_question_result(session', now')]_vars

\* a session with an answer on record was paused and has been resumed
C17_Witness ==
    /\ impl = "agent"
    /\ last.op = "resume"
    /\ last.result.status = "success"
    /\ session.session_status = "active"
    /\ session.answers # << >>
    /\ last.result.next_question.status = "success"

----------------------------------------------------------------------------
(* C18 *)

\* C18: completed is terminal: no operation takes a session whose status is
\* "completed" to any other status.
C18_CompletedIsTerminal ==
    [][/\ session.session_status = "completed"
          => session'.session_status = "completed"
       /\ \A id \in DOMAIN interview_sessions :
             interview_sessions[id].status = "completed"
             => /\ id \in DOMAIN interview_sessions'
                /\ interview_sessions'[id].status = "completed"]_vars

----------------------------------------------------------------------------
(* C19 *)

\* C19 as stated: the status of a session is always one of active, paused,
\* completed, and is active right after creation, for the InterviewSession
\* object and for the dict a job analysis stores.
C19_StatusAlwaysActivePausedCompleted ==
    /\ session.session_status \in {"active", "paused", "completed"}
    /\ (last = NoCall => session.session_status = "active")
    /\ \A id \in DOMAIN interview_sessions :
          interview_sessions[id].status \in {"active", "paused", "completed"}
    /\ (HasDefault /\ last.op = "analyze" /\ ~Failed(last.result))
       => Default.status = "active"

\* C19, amended: an InterviewSession is active right after construction and
\* its status is always one of active, paused, completed; the dict a job
\* analysis stores starts with status "ready" and its status is always
\* "ready" or "completed".
C19_StatusDomain ==
    /\ session.session_status \in {"active", "paused", "completed"}
    /\ (last = NoCall => session.session_status = "active")
    /\ (impl = "tools" /\ last.op = "tool_status") => last.result.status = "active"
    /\ \A id \in DOMAIN interview_sessions :
          interview_sessions[id].status \in {"ready", "completed"}
    /\ (HasDefault /\ last.op = "analyze" /\ ~Failed(last.result))
       => Default.status = "ready"

\* a job analysis has just stored a session
C19_Witness ==
    /\ HasDefault
    /\ last.op = "analyze"
    /\ ~Failed(last.result)
    /\ Default.status = "ready"
    /\ Default.questions # << >>

----------------------------------------------------------------------------
(* C20 *)

\* C20: in the status projection completed_questions is the number of
\* recorded answers k, percentage_complete is 100 * k / N for N > 0
\* questions and 0 for N = 0, and it always lies between 0 and 100.
C20_PercentageWithinBounds ==
    (last.op \in {"status", "tool_status"})
    => LET progress == last.result.progress
           N == progress.total_questions
           k == progress.completed_questions
           pct == progress.percentage_complete
       IN /\ (impl = "agent" => /\ k = Len(session.answers)
                                 /\ N = Len(session.questions))
          /\ IF N > 0
             THEN pct.num * N = 100 * k * pct.den
             ELSE pct.num = 0
          /\ 0 <= pct.num
          /\ pct.num <= 100 * pct.den

----------------------------------------------------------------------------
(* C21 *)

\* C21: ask_next_interview_question, record_interview_answer and
\* provide_feedback called with a session_id that is not in
\* interview_sessions return a not-found error and leave the dictionary as
\* it was: no entry is created, modified or removed.
C21_UnknownSessionNotFound ==
    [][(/\ impl = "dict"
        /\ \/ CallStep("next")
           \/ CallStep("record")
           \/ CallStep("feedback")
        /\ last'.sid \notin DOMAIN interview_sessions)
         => /\ ~last'.result.success
            /\ last'.result.error \in
                 {"Session not found. Please start with job analysis first.",
                  "Session not found"}
            /\ interview_sessions' = interview_sessions]_vars

\* a session exists and a record for an unknown id has just been refused
C21_Witness ==
    /\ HasDefault
    /\ last.op = "record"
    /\ last.sid = "other"
    /\ last.result.error = "Session not found"
    /\ DOMAIN interview_sessions = {"default"}

----------------------------------------------------------------------------
(* C22 *)

\* C22: adapter failures are surfaced verbatim and never retried.  When the
\* vacancy analysis fails, analyze_job_and_generate_questions returns the
\* adapter's error unchanged, question generation is not called and the
\* dictionary is unchanged; when question generation fails, that adapter's
\* error is returned unchanged and no session is stored; each adapter is
\* called at most once per call (analysis first, then generation).
C22_AdapterFailureVerbatim ==
    [][CallStep("analyze")
         => LET calls == last'.adapters
            IN /\ Len(calls) \in {1, 2}
               /\ calls[1] \in VacancyResults
               /\ Len(calls) = 2 => calls[2] \in QuestionsResults
               /\ ~calls[1].success
                  => /\ Len(calls) = 1
                     /\ last'.result.error = calls[1].error
                     /\ interview_sessions' = interview_sessions
               /\ (calls[1].success /\ ~calls[2].success)
                  => /\ last'.result.error = calls[2].error
                     /\ interview_sessions' = interview_sessions
               /\ calls[1].success => Len(calls) = 2]_vars

\* with a session in place, an analysis got through and the generation failed
C22_Witness ==
    /\ HasDefault
    /\ last.op = "analyze"
    /\ Len(last.adapters) = 2
    /\ ~last.adapters[2].success
    /\ last.result.error = "Question generation error"

----------------------------------------------------------------------------
(* C23 *)

UniqueIds(questions) ==
    \A i, j \in 1..Len(questions) :
        questions[i].question_id = questions[j].question_id => i = j

\* C23: question ids are unique within a session in every state, and an
\* add_questions call that fails leaves the question list exactly as it was.
C23_UniqueIdsAtomicAdd ==
    [][/\ UniqueIds(session.questions)
       /\ UniqueIds(session'.questions)
       /\ (CallStep("add") /\ Failed(last'.result))
          => session'.questions = session.questions]_vars

----------------------------------------------------------------------------
(* C24 *)

\* the session of the flow, in either implementation
FlowSession ==
    IF impl = "dict"
    THEN [exists |-> HasDefault,
          questions |-> IF HasDefault THEN Default.questions ELSE << >>,
          answers |-> IF HasDefault THEN Default.answers ELSE << >>,
          status |-> IF HasDefault THEN Default.status ELSE "none"]
    ELSE [exists |-> TRUE,
          questions |-> session.questions,
          answers |-> session.answers,
          status |-> session.session_status]

\* next_question has just returned the completion summary, and as many
\* answers are on record as the session has questions
FlowFinished ==
    /\ FlowSession.exists
    /\ last.op = "next"
    /\ last.result.status = "completed"
    /\ Len(FlowSession.answers) = Len(FlowSession.questions)

\* C24 as stated: for a session with N questions, the caller that alternates
\* next_question and record_answer with the delivered id eventually reaches
\* a state in which the status is completed and next_question returns the
\* completion summary, after exactly N successful record_answer calls.
C24_FlowReachesCompleted ==
    <>(FlowFinished /\ FlowSession.status = "completed")

\* C24, amended: the alternating caller eventually gets the completion
\* summary from next_question after exactly N successful record_answer
\* calls; the status is completed at that point when N >= 1, while a session
\* with N = 0 questions reports completion at once and its status stays what
\* it was at creation ("ready" / "active").
C24_FlowReachesCompletion ==
    <>(/\ FlowFinished
       /\ IF Len(FlowSession.questions) >= 1
          THEN FlowSession.status = "completed"
          ELSE FlowSession.status \in {"ready", "active"})

\* the flow has run through a session of two questions
C24_Witness ==
    /\ FlowFinished
    /\ Len(FlowSession.questions) = 2
    /\ FlowSession.status = "completed"

----------------------------------------------------------------------------
(* C25 *)

\* both threads got past the end test having read the same pointer value,
\* and both have written the pointer back
RacedOnPointer ==
    /\ \A t \in Threads : threads[t].pc \in {"check", "done"}
                          /\ "current_index" \in DOMAIN threads[t]
    /\ threads[1].current_index = threads[2].current_index

\* C25: without mutual exclusion two record_interview_answer calls that both
\* read current_question_index before either writes it back lose an
\* increment: two answers were appended, the pointer advanced by one only, so
\* current_question_index # len(answers), and both answers carry the snapshot
\* of the same question.
C25_RaceLosesIncrement ==
    RacedOnPointer
    => LET i == threads[1].current_index
           n == Len(Default.answers)
       IN /\ n >= 2
          /\ Default.current_question_index = i + 1
          /\ Default.current_question_index # n
          /\ Default.answers[n].question_text = Default.answers[n - 1].question_text
          /\ Default.answers[n].question_text
               = Get(Default.questions[i + 1], "question", "")

\* the race has happened on a session of two questions
C25_Witness ==
    /\ RacedOnPointer
    /\ \A t \in Threads : threads[t].pc = "done"
    /\ Len(Default.questions) = 2
    /\ Len(Default.answers) = 2
    /\ Default.current_question_index = 1

----------------------------------------------------------------------------
(* C26 *)

\* C26: in the dict-based session every answer record is a snapshot of the
\* question that was current when it was recorded: under sequential calls
\* answers[i] carries the question_text, question_type, difficulty_level and
\* skills_assessed of questions[i], whatever question_id the caller passed.
C26_AnswerIsSnapshot ==
    \A id \in DOMAIN interview_sessions :
        LET s == interview_sessions[id]
        IN /\ Len(s.answers) <= Len(s.questions)
           /\ \A i \in 1..Len(s.answers) :
                /\ s.answers[i].question_text = Get(s.questions[i], "question", "")
                /\ s.answers[i].question_type
                     = Get(s.questions[i], "question_type", "general")
                /\ s.answers[i].difficulty_level
                     = Get(s.questions[i], "difficulty_level", "medium")
                /\ s.answers[i].skills_assessed
                     = Get(s.questions[i], "skills_assessed", << >>)

\* two different questions were answered, the second under a foreign id
C26_Witness ==
    /\ HasDefault
    /\ Len(Default.answers) = 2
    /\ Default.questions[1] # Default.questions[2]
    /\ Default.answers[2].question_id # QId(2)
    /\ Default.answers[1].question_text # Default.answers[2].question_text

----------------------------------------------------------------------------
(* C27 *)

\* C27: in the dict-based session, status "completed" implies at least one
\* question and len(answers) = len(questions) = current_question_index;
\* hence provide_feedback never returns its "No questions or answers found
\* in session" error.
C27_CompletedHasAllAnswers ==
    /\ \A id \in DOMAIN interview_sessions :
          LET s == interview_sessions[id]
          IN s.status = "completed"
             => /\ Len(s.questions) >= 1
                /\ Len(s.answers) = Len(s.questions)
                /\ s.current_question_index = Len(s.questions)
    /\ (last.op = "feedback" /\ ~last.result.success)
       => last.result.error # "No questions or answers found in session"

\* provide_feedback went past that branch on a completed session and the
\* adapter failed
C27_Witness ==
    /\ HasDefault
    /\ Default.status = "completed"
    /\ last.op = "feedback"
    /\ last.sid = "default"
    /\ last.adapter_called
    /\ ~last.result.success

----------------------------------------------------------------------------
(* C28 *)

FeedbackFields == {"feedback", "voice_feedback", "feedback_status"}

\* C28: provide_feedback never changes the interview progress: questions,
\* answers, current_question_index and status of the session stay as they
\* were and no other session is touched.  When the call fails nothing is
\* written, and if the adapter was reached the error returned is the
\* adapter's; when it succeeds the fields feedback, voice_feedback and
\* feedback_status are the only ones written.  A completed session therefore
\* stays eligible: provide_feedback on it reaches the adapter again.
C28_FeedbackFrame ==
    [][(CallStep("feedback") /\ last'.sid \in DOMAIN interview_sessions)
         => LET sid == last'.sid
                s == interview_sessions[sid]
                after == interview_sessions'[sid]
            IN /\ DOMAIN interview_sessions' = DOMAIN interview_sessions
               /\ \A id \in DOMAIN interview_sessions \ {sid} :
                     interview_sessions'[id] = interview_sessions[id]
               /\ after.questions = s.questions
               /\ after.answers = s.answers
               /\ after.current_question_index = s.current_question_index
               /\ after.status = s.status
               /\ IF last'.result.success
                  THEN /\ DOMAIN after = DOMAIN s \cup FeedbackFields
                       /\ \A k \in DOMAIN s \ FeedbackFields : after[k] = s[k]
                       /\ after.feedback = last'.result.feedback
                       /\ after.voice_feedback = last'.result.voice_feedback
                       /\ after.feedback_status = "completed"
                  ELSE /\ after = s
                       /\ last'.adapter_called
                          => \E r \in ModelResponses :
                               LET fr == provide_feedback_sync(
                                             s.questions, s.answers, s.vacancy_info,
                                             sid, s.candidate_name, r)
                               IN ~fr.success /\ last'.result.error = fr.error
               /\ s.status = "completed" => last'.adapter_called]_vars

\* feedback was stored by an earlier call, and a later call on the same
\* session reached the adapter, which failed
C28_Witness ==
    /\ HasDefault
    /\ last.op = "feedback"
    /\ last.sid = "default"
    /\ last.adapter_called
    /\ ~last.result.success
    /\ "feedback_status" \in DOMAIN Default
    /\ Default.feedback_status = "completed"

----------------------------------------------------------------------------
(* C29 *)

\* C29: the two copies of the dict-based operations are equivalent: over
\* every dictionary the program reaches and for every argument tuple,
\* ask_next_interview_question_sync returns what ask_next_interview_question
\* returns, and record_interview_answer_sync returns the same result and
\* leaves the same dictionary as record_interview_answer called at the same
\* clock reading.
C29_SyncCopiesEquivalent ==
    \A sid \in SessionIds :
        /\ AskNextSyncResult(interview_sessions, sid)
             = AskNextResult(interview_sessions, sid)
        /\ \A q \in QuestionIdArgs, a \in AnswerTexts :
             RecordAnswerSyncOutcome(interview_sessions, sid, q, a, now)
               = RecordAnswerOutcome(interview_sessions, sid, q, a, now)

\* the sync copy has just recorded the last answer of a two-question session
C29_Witness ==
    /\ HasDefault
    /\ last.op = "record"
    /\ "copy" \in DOMAIN last
    /\ last.copy = "sync"
    /\ last.result.success
    /\ last.result.status = "completed"
    /\ Len(Default.answers) = 2

----------------------------------------------------------------------------
(* The elapsed-time string on its own: an InterviewAgent constructed at     *)
(* some clock reading is asked for its status when the session is any whole *)
(* number of seconds old, up to MaxElapsed.                                  *)

ElapsedInit ==
    /\ impl = "agent"
    /\ questions_file = << >>
    /\ threads = [t \in Threads |-> Idle]
    /\ interview_sessions = EmptyDict
    /\ \E start_time \in 0..MaxTime :
          /\ session = NewInterviewAgent(<< >>, start_time)
          /\ now \in start_time..(start_time + MaxElapsed)
    /\ last = NoCall
    /\ in_order = TRUE

ElapsedNext == get_session_status

ElapsedSpec == ElapsedInit /\ [][ElapsedNext]_vars

\* the units of an elapsed-time string and the seconds each stands for
UnitSeconds(unit) ==
    CASE unit = "h" -> 3600
      [] unit = "m" -> 60
      [] unit = "s" -> 1

RECURSIVE SecondsShown(_)
\* the number of seconds an elapsed-time string spells out
SecondsShown(e) ==
    IF e = << >> THEN 0
    ELSE e[1][1] * UnitSeconds(e[1][2]) + SecondsShown(Tail(e))

\* C30: the elapsed-time string of a session that is t whole seconds old is
\* "{h}h {m}m {s}s" when h > 0, "{m}m {s}s" when h = 0 and m > 0 and "{s}s"
\* otherwise, with h = t div 3600, m = (t mod 3600) div 60, s = t mod 60;
\* seconds are always shown, no leading unit is zero, m and s stay below 60
\* and the units shown add up to t.
C30_ElapsedTimeFormat ==
    last.op = "status" =>
        LET t == now - session.start_time
            h == t \div 3600
            m == (t % 3600) \div 60
            s == t % 60
            e == last.result.elapsed_time
        IN /\ h > 0 => e = << <<h, "h">>, <<m, "m">>, <<s, "s">> >>
           /\ (h = 0 /\ m > 0) => e = << <<m, "m">>, <<s, "s">> >>
           /\ (h = 0 /\ m = 0) => e = << <<s, "s">> >>
           /\ e[Len(e)] = <<s, "s">>
           /\ (Len(e) > 1 => e[1][1] > 0)
           /\ h * 3600 + m * 60 + s = t
           /\ m \in 0..59 /\ s \in 0..59
           /\ SecondsShown(e) = t

\* the status of a session exactly two hours and five seconds old was asked
C30_Witness ==
    /\ last.op = "status"
    /\ now - session.start_time = 7205
    /\ last.result.elapsed_time = << <<2, "h">>, <<0, "m">>, <<5, "s">> >>

====
